---- MODULE Spec2Model ----
(***************************************************************************)
(* Model of the nest-demo-app user/auth services.                          *)
(*                                                                         *)
(* The account collection is a sequence of documents; the ObjectId of a    *)
(* document is its index (1, 2, ...), and 0 stands for a string that is    *)
(* not a well-formed ObjectId.  Every service method is an operator that   *)
(* maps the collection and the call's inputs to a response record          *)
(*   [users, res, msg, ret, sent]                                          *)
(* (collection afterwards, "Ok" / "Null" / the exception class thrown,     *)
(* the exception message, the returned value, the e-mails handed to the    *)
(* e-mail service).  A verification request reads, writes and mails in     *)
(* three awaited steps, a signup saves and mails in two, a login reads and *)
(* compares in two, and other requests are served in between: `calls'      *)
(* holds the requests that are between two of their steps.  `redeemed'     *)
(* records history: the ids whose verification request has written and     *)
(* been answered.                                                          *)
(***************************************************************************)
EXTENDS Integers, Sequences, FiniteSets, Bags, TLC

VARIABLES users, last, calls, redeemed

vars == <<users, last, calls, redeemed>>

\* ------------------------------------------------------------------ bounds
MaxUsers == 2
MaxFiles == 2
NCalls == 2

\* ------------------------------------------------------------- input sets
Emails == {"a@x.com", "b@x.com"}
SignupPasswords == {"p1"}
LoginPasswords == {"p1", "p2"}
PatchPasswords == {"p2"}
Salts == {"s1"}
FileData == {"f1", "f2"}
IdInputs == 0 .. MaxUsers

\* Signup bodies: username, e-mail and password; `has' lists the further schema
\* fields (files, isActive) the body carries, none in the bodies drawn here.
\* Every signup after the first repeats a stored e-mail and username; "b@x.com"
\* is an e-mail that no account ever has.
CreateUserDtos ==
  { [username |-> "a", email |-> "a@x.com", password |-> p,
     has |-> {}, files |-> <<>>, isActive |-> FALSE] : p \in SignupPasswords }

\* An UpdateUserDto: `has' lists the fields the request body carries.
NoPatch ==
  [has |-> {}, username |-> "", email |-> "", password |-> "", files |-> <<>>,
   isActive |-> FALSE]

UpdateUserDtos ==
  {NoPatch}
  \cup { [NoPatch EXCEPT !.has = {"password"}, !.password = p] : p \in PatchPasswords }
  \cup { [NoPatch EXCEPT !.has = {"isActive"}, !.isActive = b] : b \in BOOLEAN }
  \cup { [NoPatch EXCEPT !.has = {"files"}, !.files = <<>>] }

\* Outcome of the e-mail collaborator: delivered, or SendError thrown.
EmailOutcomes == {"sent", "SendError"}

\* ---------------------------------------------------------------- library
\* bcrypt.hash(password, salt): a salted one-way digest.
BcryptHash(password, salt) == [kind |-> "bcrypt", salt |-> salt, text |-> password]

\* A string stored as it came from the client.
Plain(password) == [kind |-> "plain", salt |-> "", text |-> password]

\* bcrypt.compare(password, stored): false when `stored' is not a bcrypt digest.
BcryptCompare(password, stored) == stored.kind = "bcrypt" /\ stored.text = password

NoRet == [kind |-> "none", id |-> 0, sub |-> 0, username |-> ""]

\* jwtService.sign(payload) with the module's secret; the payload stays readable.
JwtSign(id, sub, username) == [kind |-> "jwt", id |-> id, sub |-> sub, username |-> username]

\* The identity a verification token decodes to.
JwtDecodeId(token) == IF token.kind = "jwt" THEN token.id ELSE 0

UserRet(id) == [kind |-> "user", id |-> id, sub |-> 0, username |-> ""]
TrueRet == [kind |-> "true", id |-> 0, sub |-> 0, username |-> ""]

\* Types.ObjectId.isValid
ObjectIdIsValid(id) == id >= 1

\* ------------------------------------------------------------------ store
\* Fields of the User schema that carry a unique index.
UniqueIndexes == {}

\* new this.userModel({ ...createUserDTO, password: hashedPassword }): the body's
\* fields as given, the password replaced, and the schema defaults (files [],
\* isActive false) for the fields the body does not carry.
NewUserDocument(dto, hashedPassword) ==
  [username |-> dto.username, email |-> dto.email, password |-> hashedPassword,
   files |-> IF "files" \in dto.has THEN dto.files ELSE <<>>,
   isActive |-> IF "isActive" \in dto.has THEN dto.isActive ELSE FALSE]

FieldOf(doc, f) == IF f = "email" THEN doc.email ELSE doc.username

\* MongoDB raises E11000 when an insert collides on a unique index.
DuplicateKey(us, doc) ==
  \E i \in DOMAIN us : \E f \in UniqueIndexes : FieldOf(us[i], f) = FieldOf(doc, f)

\* userModel.findById / findByIdAndUpdate lookup: 0 is "no document".
FindById(us, id) == IF id \in DOMAIN us THEN id ELSE 0

\* userModel.findOne({ email }): the first matching document, 0 if none.
FindOneByEmail(us, email) ==
  LET m == { i \in DOMAIN us : us[i].email = email }
  IN IF m = {} THEN 0 ELSE CHOOSE i \in m : \A j \in m : i <= j

\* findByIdAndUpdate(id, dto): $set of every field the dto carries.
ApplyPatch(doc, dto) ==
  [username |-> IF "username" \in dto.has THEN dto.username ELSE doc.username,
   email |-> IF "email" \in dto.has THEN dto.email ELSE doc.email,
   password |-> IF "password" \in dto.has THEN Plain(dto.password) ELSE doc.password,
   files |-> IF "files" \in dto.has THEN dto.files ELSE doc.files,
   isActive |-> IF "isActive" \in dto.has THEN dto.isActive ELSE doc.isActive]

Mail(template, to) == [template |-> template, to |-> to]

Response(us, res, msg, ret, sent) ==
  [users |-> us, res |-> res, msg |-> msg, ret |-> ret, sent |-> sent]

\* ------------------------------------------------------------ UserService
\* UserService.createNewUser, up to await user.save(): "Continue" means the
\* document was inserted.
SignupSave(us, dto, salt) ==
  LET hashedPassword == BcryptHash(dto.password, salt)
      doc == NewUserDocument(dto, hashedPassword)
  IN IF DuplicateKey(us, doc)
     THEN Response(us, "BadRequestException",
                   "User with given email or username already exists", NoRet, <<>>)
     ELSE Response(Append(us, doc), "Continue", "", NoRet, <<>>)

\* createNewUser after save(): the token, the verification e-mail and the return;
\* an error of sendEmail reaches the catch.  `user' is the saved document
\* (savedUser) with its _id.
SignupMail(us, user, mail) ==
  LET token == JwtSign(user.id, 0, "")
      dataToEmail == Mail("userVerificationRequest", user.email)
  IN IF mail = "SendError"
     THEN Response(us, "InternalServerErrorException", "SendError", NoRet, <<dataToEmail>>)
     ELSE Response(us, "Ok", "", token, <<dataToEmail>>)

\* UserService.createNewUser when no other request is served between its awaits.
createNewUser(us, dto, salt, mail) ==
  LET saved == SignupSave(us, dto, salt)
      id == Len(us) + 1
  IN IF saved.res # "Continue" THEN saved
     ELSE SignupMail(saved.users, [id |-> id, email |-> saved.users[id].email], mail)

\* UserService.updateUser
updateUser(us, userId, dto) ==
  IF ~ObjectIdIsValid(userId)
  THEN Response(us, "BadRequestException", "Invalid user ID", NoRet, <<>>)
  ELSE IF FindById(us, userId) = 0
  THEN Response(us, "NotFoundException", "User not found", NoRet, <<>>)
  ELSE Response([us EXCEPT ![userId] = ApplyPatch(us[userId], dto)],
                "Ok", "", UserRet(userId), <<>>)

\* UserService.getUser({ _id: id }): a malformed id makes findOne throw a
\* CastError; both it and the NotFoundException thrown inside the try block
\* reach the catch, which rethrows InternalServerErrorException(error.message).
getUserById(us, id) ==
  IF ~ObjectIdIsValid(id)
  THEN Response(us, "InternalServerErrorException", "Cast to ObjectId failed", NoRet, <<>>)
  ELSE IF FindById(us, id) = 0
  THEN Response(us, "InternalServerErrorException", "User not found", NoRet, <<>>)
  ELSE Response(us, "Ok", "", UserRet(id), <<>>)

\* UserService.getUser({ email })
getUserByEmail(us, email) ==
  IF FindOneByEmail(us, email) = 0
  THEN Response(us, "InternalServerErrorException", "User not found", NoRet, <<>>)
  ELSE Response(us, "Ok", "", UserRet(FindOneByEmail(us, email)), <<>>)

\* updateUserFiles with $addToSet in place of $push: an entry already present is not added.
updateUserFiles_AddToSet(us, userId, fileData) ==
  IF ~ObjectIdIsValid(userId)
  THEN Response(us, "BadRequestException", "Invalid user ID", NoRet, <<>>)
  ELSE IF FindById(us, userId) = 0
  THEN Response(us, "Ok", "", NoRet, <<>>)
  ELSE IF \E k \in DOMAIN us[userId].files : us[userId].files[k] = fileData
  THEN Response(us, "Ok", "", NoRet, <<>>)
  ELSE Response([us EXCEPT ![userId].files = Append(@, fileData)], "Ok", "", NoRet, <<>>)

\* UserService.updateUserFiles: the result of findByIdAndUpdate is not looked at.
updateUserFiles(us, userId, fileData) ==
  IF ~ObjectIdIsValid(userId)
  THEN Response(us, "BadRequestException", "Invalid user ID", NoRet, <<>>)
  ELSE IF FindById(us, userId) = 0
  THEN Response(us, "Ok", "", NoRet, <<>>)
  ELSE Response([us EXCEPT ![userId].files = Append(@, fileData)], "Ok", "", NoRet, <<>>)

\* updateUserVerificationStatus, up to the first write: findById and the two checks.
\* "Continue" means the document was found with isActive = false.
VerifyLookup(us, userId) ==
  IF ~ObjectIdIsValid(userId)
  THEN Response(us, "InternalServerErrorException", "Cast to ObjectId failed", NoRet, <<>>)
  ELSE IF FindById(us, userId) = 0
  THEN Response(us, "NotFoundException", "User not found", NoRet, <<>>)
  ELSE IF us[userId].isActive
  THEN Response(us, "BadRequestException", "User is already verified", NoRet, <<>>)
  ELSE Response(us, "Continue", "", NoRet, <<>>)

\* user.isActive = true; await user.save(): writes the modified path of that document.
VerifySave(us, userId) == [us EXCEPT ![userId].isActive = TRUE]

\* The confirmation e-mail and the return; an error of sendEmail reaches the catch.
\* `user' is the document findById returned: the mail goes to its e-mail address.
VerifyMail(us, user, mail) ==
  LET dataToEmail == Mail("accountVerified", user.email)
  IN IF mail = "SendError"
     THEN Response(us, "InternalServerErrorException", "SendError", NoRet, <<dataToEmail>>)
     ELSE Response(us, "Ok", "", TrueRet, <<dataToEmail>>)

\* UserService.updateUserVerificationStatus when no other request is served
\* between its awaits.
updateUserVerificationStatus(us, userId, mail) ==
  LET looked == VerifyLookup(us, userId)
  IN IF looked.res # "Continue" THEN looked
     ELSE VerifyMail(VerifySave(us, userId), us[userId], mail)

\* ------------------------------------------------------------ AuthService
\* The comparison that turns away an account that is not verified yet.
ValidateCompare_ActiveOnly(us, id, user, password) ==
  IF BcryptCompare(password, user.password) /\ user.isActive
  THEN Response(us, "Ok", "", UserRet(id), <<>>)
  ELSE Response(us, "Null", "", NoRet, <<>>)

\* AuthService.validateUser after getUser: await bcrypt.compare against the
\* password of the document getUser returned (`user'), then the user or null.
ValidateCompare(us, id, user, password) ==
  IF BcryptCompare(password, user.password)
  THEN Response(us, "Ok", "", UserRet(id), <<>>)
  ELSE Response(us, "Null", "", NoRet, <<>>)

\* AuthService.validateUser when no other request is served between its
\* awaits: getUser's exception is not caught here.
validateUser(us, email, password) ==
  LET found == getUserByEmail(us, email)
  IN IF found.res # "Ok" THEN found
     ELSE ValidateCompare(us, found.ret.id, us[found.ret.id], password)

\* AuthGuard('local'): the handler runs with req.user when validateUser
\* returned a user; otherwise the request ends with validateUser's outcome.
LocalGuard(v) == v.res = "Ok" /\ v.ret.kind = "user"

\* AuthService.login: the payload is taken from the document handed in.
login(us, id, user) == Response(us, "Ok", "", JwtSign(0, id, user.username), <<>>)

\* ------------------------------------------------------------------ state
\* A request between two of its awaits: `pc' is the await it is at ("save" or
\* "email" of a verification, "signupMail" of a signup), id, email and name
\* those of the document the request holds (the one findById returned, or
\* the one the signup saved).
InFlight(pc, id, user) ==
  [pc |-> pc, id |-> id, email |-> user.email, name |-> user.username]

\* A login between getUser and bcrypt.compare: it holds the document getUser
\* returned and the password of the request.
LoginInFlight(id, user, password) ==
  [pc |-> "compare", id |-> id, email |-> user.email, name |-> user.username,
   user |-> user, password |-> password]

\* The last request served: the operation, its userId (id), e-mail or file
\* (arg) and username or login password (name) arguments, what the e-mail collaborator did with the mail it was handed (if
\* any), and the response.
Last(op, id, arg, name, mail, r) ==
  [op |-> op, id |-> id, arg |-> arg, name |-> name,
   mail |-> IF r.sent = <<>> THEN "" ELSE mail,
   res |-> r.res, msg |-> r.msg, ret |-> r.ret, sent |-> r.sent]

Init ==
  /\ users = <<>>
  /\ last = Last("init", 0, "", "", "", Response(<<>>, "Ok", "", NoRet, <<>>))
  /\ calls = EmptyBag
  /\ redeemed = {}

\* Number of file entries stored in the whole collection.
RECURSIVE TotalFiles(_)
TotalFiles(us) == IF us = <<>> THEN 0 ELSE Len(us[1].files) + TotalFiles(Tail(us))

\* ---------------------------------------------------------------- actions
\* POST user/signup, up to await user.save(): the digest and the insert.  A
\* duplicate key is answered at once; otherwise the request goes on to the
\* verification e-mail.
CreateUserSave ==
  \E dto \in CreateUserDtos, salt \in Salts :
    LET r == SignupSave(users, dto, salt)
        id == Len(users) + 1
    IN /\ Len(users) < MaxUsers
       /\ IF r.res = "Continue"
          THEN /\ BagCardinality(calls) < NCalls
               /\ users' = r.users
               /\ calls' = calls (+) SetToBag({InFlight("signupMail", id, r.users[id])})
               /\ UNCHANGED <<last, redeemed>>
          ELSE /\ last' = Last("signup", id, dto.email, dto.username, "", r)
               /\ UNCHANGED <<users, calls, redeemed>>

\* POST user/signup: sign, await this.emailService.sendEmail(dataToEmail), return
CreateUserSend ==
  \E c \in BagToSet(calls), mail \in EmailOutcomes :
    /\ c.pc = "signupMail"
    /\ calls' = calls (-) SetToBag({c})
    /\ last' = Last("signup", c.id, c.email, c.name, mail, SignupMail(users, c, mail))
    /\ UNCHANGED <<users, redeemed>>

\* POST user/:id
UpdateUser ==
  \E id \in IdInputs, dto \in UpdateUserDtos :
    LET r == updateUser(users, id, dto)
    IN /\ users' = r.users
       /\ last' = Last("updateUser", id, "", "", "", r)
       /\ UNCHANGED <<calls, redeemed>>

\* GET user/:id
GetUserById ==
  \E id \in IdInputs :
    /\ last' = Last("getUser", id, "", "", "", getUserById(users, id))
    /\ UNCHANGED <<users, calls, redeemed>>

\* the upload handlers' call of updateUserFiles
UpdateUserFiles ==
  \E id \in IdInputs, f \in FileData :
    LET r == updateUserFiles(users, id, f)
    IN /\ TotalFiles(users) < MaxFiles
       /\ users' = r.users
       /\ last' = Last("files", id, f, "", "", r)
       /\ UNCHANGED <<calls, redeemed>>

\* POST auth/login, up to await getUser({ email }): a request whose e-mail no
\* account has ends with getUser's exception; otherwise it holds the
\* document and goes on to bcrypt.compare.
LoginRead ==
  \E email \in Emails, password \in LoginPasswords :
    LET found == getUserByEmail(users, email)
    IN IF found.res = "Ok"
       THEN /\ BagCardinality(calls) < NCalls
            /\ calls' = calls (+)
                 SetToBag({LoginInFlight(found.ret.id, users[found.ret.id], password)})
            /\ UNCHANGED <<users, last, redeemed>>
       ELSE /\ last' = Last("login", 0, email, password, "", found)
            /\ UNCHANGED <<users, calls, redeemed>>

\* POST auth/login: await bcrypt.compare, the guard, the handler's login(req.user)
LoginAnswer ==
  \E c \in BagToSet(calls) :
    /\ c.pc = "compare"
    /\ LET v == ValidateCompare(users, c.id, c.user, c.password)
           r == IF LocalGuard(v) THEN login(users, c.id, c.user) ELSE v
       IN last' = Last("login", 0, c.email, c.password, "", r)
    /\ calls' = calls (-) SetToBag({c})
    /\ UNCHANGED <<users, redeemed>>

\* POST user/verify/:userId, first step: findById and the two checks.  A request
\* that finds no document or an active one is answered at once; one that finds
\* a Pending account sets isActive on its copy and goes on to save().
VerifyBegin ==
  \E id \in IdInputs :
    LET r == VerifyLookup(users, id)
    IN IF r.res = "Continue"
       THEN /\ BagCardinality(calls) < NCalls
            /\ calls' = calls (+) SetToBag({InFlight("save", id, users[id])})
            /\ UNCHANGED <<users, last, redeemed>>
       ELSE /\ last' = Last("verify", id, "", "", "", r)
            /\ UNCHANGED <<users, calls, redeemed>>

\* await user.save()
VerifyWrite ==
  \E c \in BagToSet(calls) :
    /\ c.pc = "save"
    /\ users' = VerifySave(users, c.id)
    /\ calls' = (calls (-) SetToBag({c})) (+) SetToBag({[c EXCEPT !.pc = "email"]})
    /\ UNCHANGED <<last, redeemed>>

\* await this.emailService.sendEmail(dataToEmail); return true
VerifySend ==
  \E c \in BagToSet(calls), mail \in EmailOutcomes :
    /\ c.pc = "email"
    /\ calls' = calls (-) SetToBag({c})
    /\ last' = Last("verify", c.id, "", "", mail, VerifyMail(users, c, mail))
    /\ redeemed' = redeemed \cup {c.id}
    /\ UNCHANGED users

\* Every request the two controllers serve.
Next ==
  \/ CreateUserSave
  \/ CreateUserSend
  \/ UpdateUser
  \/ GetUserById
  \/ UpdateUserFiles
  \/ LoginRead
  \/ LoginAnswer
  \/ VerifyBegin
  \/ VerifyWrite
  \/ VerifySend

Spec == Init /\ [][Next]_vars

\* Signup, reads, login and verification: the requests that leave passwords
\* and files alone.
NextVerification ==
  \/ CreateUserSave
  \/ CreateUserSend
  \/ GetUserById
  \/ LoginRead
  \/ LoginAnswer
  \/ VerifyBegin
  \/ VerifyWrite
  \/ VerifySend

SpecVerification == Init /\ [][NextVerification]_vars

\* Signup, reads, login and uploads.
NextAttachments ==
  \/ CreateUserSave
  \/ CreateUserSend
  \/ GetUserById
  \/ UpdateUserFiles
  \/ LoginRead
  \/ LoginAnswer

SpecAttachments == Init /\ [][NextAttachments]_vars

\* Signup, account update, reads and verification.
NextAccounts ==
  \/ CreateUserSave
  \/ CreateUserSend
  \/ UpdateUser
  \/ GetUserById
  \/ VerifyBegin
  \/ VerifyWrite
  \/ VerifySend

SpecAccounts == Init /\ [][NextAccounts]_vars

\* Signups and verification requests only: isActive is never reset.
NextConc ==
  \/ CreateUserSave
  \/ CreateUserSend
  \/ VerifyBegin
  \/ VerifyWrite
  \/ VerifySend

SpecConc == Init /\ [][NextConc]_vars

\* ----------------------------------------------------------------- claims
\* The step is the answer to a request of kind op that is not a verification step.
Served(op) == calls' = calls /\ last'.op = op

\* The step takes a request at await pc out of `calls'.
Leaves(c, pc) == c.pc = pc /\ CopiesIn(c, calls') < CopiesIn(c, calls)

\* C1: among concurrent verification calls on one account, exactly one performs
\* the Pending -> Verified write (and mails); the others fail with 'User is
\* already verified'.  So every call that gets to write finds the account
\* still Pending when it writes.
C1_ExactlyOneTransition ==
  [][ \A c \in BagToSet(calls) : Leaves(c, "save") => ~users[c.id].isActive ]_vars

\* The step puts a request at await pc into `calls'.
Enters(c, pc) == c.pc = pc /\ CopiesIn(c, calls') > CopiesIn(c, calls)

\* C2: for sequential verification requests on one account: a request that finds
\* the account Pending goes on to write, its write sets isActive and nothing
\* else, and its answer comes with exactly one 'accountVerified' mail; every
\* request on an id whose earlier verification has been answered is refused
\* with BadRequestException 'User is already verified', changes no account
\* and sends no mail.
C2_RedeemOnce ==
  [][ /\ (Served("verify") /\ last'.id \in DOMAIN users) =>
           /\ users[last'.id].isActive
           /\ last'.res = "BadRequestException"
           /\ last'.msg = "User is already verified"
           /\ users' = users
           /\ last'.sent = <<>>
      /\ \A c \in BagToSet(calls') :
           Enters(c, "save") =>
             /\ c.id \in DOMAIN users
             /\ ~users[c.id].isActive
             /\ c.id \notin redeemed
             /\ users' = users
      /\ \A c \in BagToSet(calls) :
           /\ Leaves(c, "save") => users' = [users EXCEPT ![c.id].isActive = TRUE]
           /\ Leaves(c, "email") =>
                /\ users' = users
                /\ last'.op = "verify"
                /\ last'.id = c.id
                /\ last'.sent = <<Mail("accountVerified", c.email)>>
    ]_vars

\* C3: every failed credential check has the same outcome, whether no account has
\* the e-mail or the password is wrong.
C3_FailuresIndistinguishable ==
  \A e1 \in Emails, e2 \in Emails, p1 \in LoginPasswords, p2 \in LoginPasswords :
    LET r1 == validateUser(users, e1, p1)
        r2 == validateUser(users, e2, p2)
    IN (r1.res # "Ok" /\ r2.res # "Ok") => (r1.res = r2.res /\ r1.msg = r2.msg)

\* C4: a signup whose e-mail or username is taken is refused with BadRequestException
\* and creates nothing, so no two accounts share an e-mail or a username.
C4_UniqueAccounts ==
  \A i \in DOMAIN users : \A j \in DOMAIN users :
    i # j => (users[i].email # users[j].email /\ users[i].username # users[j].username)

\* C5: every stored password is a salted bcrypt digest, never the client's plaintext.
C5_PasswordsHashed ==
  \A i \in DOMAIN users : users[i].password.kind = "bcrypt"

\* C6: isActive changes only in the write of a verification request and only from
\* false to true.
C6_ActiveOnlyByRedeem ==
  [][ \A i \in DOMAIN users :
        users'[i].isActive # users[i].isActive =>
          /\ \E c \in BagToSet(calls) : c.id = i /\ Leaves(c, "save")
          /\ ~users[i].isActive
          /\ users'[i].isActive
    ]_vars

\* The e-mail and the username of a signup are both unused.
FreshSignup(us, email, name) ==
  \A i \in DOMAIN us : us[i].email # email /\ us[i].username # name

\* C7: a signup with unused e-mail and username creates exactly one account, which
\* is Pending, and returns a token that decodes to the new account's id.  The
\* accounts that were there when a signup saved are those before its own.
C7_SignupCreatesPending ==
  [][ /\ \A dto \in CreateUserDtos :
           (FreshSignup(users, dto.email, dto.username) /\ Len(users') > Len(users)) =>
             /\ Len(users') = Len(users) + 1
             /\ SubSeq(users', 1, Len(users)) = users
             /\ ~users'[Len(users')].isActive
             /\ \E c \in BagToSet(calls') : Enters(c, "signupMail") /\ c.id = Len(users')
      /\ ~(Served("signup") /\ last'.res # "Ok"
             /\ FreshSignup(users, last'.arg, last'.name))
      /\ \A c \in BagToSet(calls) :
           (Leaves(c, "signupMail")
              /\ FreshSignup(SubSeq(users, 1, c.id - 1), c.email, c.name)) =>
             /\ users' = users
             /\ last'.op = "signup"
             /\ last'.res = "Ok"
             /\ last'.ret.kind = "jwt"
             /\ JwtDecodeId(last'.ret) = c.id
    ]_vars

\* C8: when the e-mail collaborator fails after the account write, the write stays
\* and the request still returns its success result.
C8_MailFailureSwallowed ==
  (last.op \in {"signup", "verify"} /\ last.mail = "SendError") =>
    /\ last.id \in DOMAIN users
    /\ last.op = "verify" => users[last.id].isActive
    /\ last.res = "Ok"

\* C9: a successful updateUserFiles on an existing account appends the call's
\* metadata at the end of that account's files and changes nothing else.
C9_FilesAppend ==
  [][ (Served("files") /\ last'.res = "Ok" /\ last'.id \in DOMAIN users) =>
        users' = [users EXCEPT ![last'.id].files = Append(@, last'.arg)]
    ]_vars

\* C9 witness: the same metadata was appended twice to one account.
C9_Witness ==
  /\ last.op = "files"
  /\ last.res = "Ok"
  /\ last.id \in DOMAIN users
  /\ Len(users[last.id].files) = 2
  /\ users[last.id].files[1] = users[last.id].files[2]

\* C10: getUser and updateUserFiles addressed to a well-formed id that no account
\* has fail with NotFoundException.
C10_MissingIsNotFound ==
  (last.op \in {"getUser", "files"} /\ ObjectIdIsValid(last.id) /\ last.id \notin DOMAIN users)
    => last.res = "NotFoundException"

\* C11: no step of a login request changes a stored account; a login is turned
\* away at the lookup only when no account has its e-mail, otherwise it holds
\* the account found for the e-mail; and when that account's password validates
\* the request's password, the request returns an access token for that
\* account, whether the account is Pending or Verified.
C11_LoginIgnoresVerification ==
  [][ /\ Served("login") =>
           /\ users' = users
           /\ FindOneByEmail(users, last'.arg) = 0
      /\ \A c \in BagToSet(calls') :
           Enters(c, "compare") =>
             /\ users' = users
             /\ c.id # 0
             /\ c.id = FindOneByEmail(users, c.email)
             /\ c.user = users[c.id]
      /\ \A c \in BagToSet(calls) :
           Leaves(c, "compare") =>
             /\ users' = users
             /\ last'.op = "login"
             /\ last'.arg = c.email
             /\ BcryptCompare(c.password, c.user.password) =>
                  /\ last'.res = "Ok"
                  /\ last'.ret = JwtSign(0, c.id, c.user.username)
    ]_vars

\* C11 witness: a login with the right password got a token while the account
\* was still Pending.
C11_Witness ==
  /\ last.op = "login"
  /\ last.res = "Ok"
  /\ last.ret.kind = "jwt"
  /\ last.ret.sub \in DOMAIN users
  /\ ~users[last.ret.sub].isActive
  /\ BcryptCompare(last.name, users[last.ret.sub].password)
====
